---- MODULE Spec2Model ----
(***************************************************************************)
(* Model of gui/scrcpy_gui.py: the manpage option extractor                *)
(* (parse_options), the form built from its result (build_gui), the Run    *)
(* handler (run_scrcpy) and main.                                          *)
(*                                                                         *)
(* Text is modelled at character level: a Python str is a sequence of      *)
(* one-character strings, so that the regular expressions, strip, split    *)
(* and replace are computed the way the interpreter computes them.         *)
(***************************************************************************)
EXTENDS Naturals, Sequences, FiniteSets, TLC

VARIABLES
    source,     \* state of the MANPAGE path: "absent", "unreadable", "readable"
    mantext,    \* the text of the manpage file
    rest,       \* the lines of mantext.splitlines() the for loop has yet to visit
    options,    \* parse_options' list `options`, then main's `opts`
    pc,         \* position of the program
    exc,        \* the exception that ended the program, or "none"
    stderr,     \* TRUE once main has printed its error message
    widgets,    \* build_gui's dict `widgets`, in insertion order: <<[name, var]>>
    form,       \* the Tk variables, one per row of the form (per descriptor)
    cmd         \* the argument list handed to subprocess.run, <<>> when none

vars == <<source, mantext, rest, options, pc, exc, stderr, widgets, form, cmd>>

-----------------------------------------------------------------------------
(* Bounds of the model and the inputs drawn from them.                     *)

MaxContentLen == 5

MaxLines == 3

\* Characters a directive's content is drawn from.
ContentAlphabet == {" ", "\"", ",", "-", "\\", "x"}

\* What a line of the single-line documents starts with.
Markers == { <<".", "B", " ">>, <<".", "B", "I", " ">>, <<".", "B">> }

SeqsUpTo(S, n) == UNION { [1..k -> S] : k \in 0..n }


\* Lines the multi-line documents are made of.
DocLines ==
    { <<".", "B", " ", "-", "f", ",", "-", "-", "x">>,            \* .B -f,--x
      <<".", "B", "I", " ", "\"", "-", "-", "y", " ", "\"">>,     \* .BI "--y "
      <<".", "B", "I", " ", "\"", "-", "-", "x", "\"", " ", "n">>,\* .BI "--x" n
      <<".", "T", "P">>,                                          \* .TP
      <<".", "B", "I", " ", "x">>,                                \* .BI x
      <<".", "B", " ", "\"", "\"">> }                             \* .B ""

RECURSIVE JoinLines(_)
JoinLines(ls) ==
    IF ls = <<>> THEN <<>>
    ELSE IF Len(ls) = 1 THEN ls[1]
    ELSE ls[1] \o <<"\n">> \o JoinLines(Tail(ls))

DocTexts == { JoinLines(ls) : ls \in SeqsUpTo(DocLines, MaxLines) }

\* What the user may type into an entry.
EntryTexts == { <<>>, <<" ">>, <<"8", " ">> }

-----------------------------------------------------------------------------
(* Python's str methods and the two regular expressions.                   *)

\* The characters str.strip(), str.split() and \s treat as whitespace.
Whitespace == {" ", "\t", "\n", "\r", "\f"}

\* The characters str.splitlines() breaks a line at.
LineBreaks == {"\n", "\r", "\f"}

RECURSIVE LStrip(_, _)
LStrip(s, chars) ==
    IF s = <<>> \/ Head(s) \notin chars THEN s ELSE LStrip(Tail(s), chars)

RECURSIVE RStrip(_, _)
RStrip(s, chars) ==
    IF s = <<>> \/ s[Len(s)] \notin chars THEN s
    ELSE RStrip(SubSeq(s, 1, Len(s) - 1), chars)

\* s.strip() with chars = Whitespace, s.strip('"') with chars = {"\""}
Strip(s, chars) == RStrip(LStrip(s, chars), chars)

\* s.replace("\\-", "-")
RECURSIVE ReplaceEscapedHyphen(_)
ReplaceEscapedHyphen(s) ==
    IF s = <<>> THEN <<>>
    ELSE IF Len(s) >= 2 /\ s[1] = "\\" /\ s[2] = "-"
         THEN <<"-">> \o ReplaceEscapedHyphen(SubSeq(s, 3, Len(s)))
         ELSE <<s[1]>> \o ReplaceEscapedHyphen(Tail(s))

\* Index of the first character of s at or after `from` that is in chars,
\* Len(s) + 1 when there is none.
RECURSIVE FindFirst(_, _, _)
FindFirst(s, chars, from) ==
    IF from > Len(s) THEN Len(s) + 1
    ELSE IF s[from] \in chars THEN from
    ELSE FindFirst(s, chars, from + 1)

\* s.split(','): never empty, '' gives [''].
RECURSIVE SplitComma(_)
SplitComma(s) ==
    LET i == FindFirst(s, {","}, 1)
    IN  IF i > Len(s) THEN <<s>>
        ELSE <<SubSeq(s, 1, i - 1)>> \o SplitComma(SubSeq(s, i + 1, Len(s)))

\* s.split(): the whitespace-delimited words, [] for a blank s.
RECURSIVE SplitWords(_)
SplitWords(s) ==
    LET t == LStrip(s, Whitespace)
        i == FindFirst(t, Whitespace, 1)
    IN  IF t = <<>> THEN <<>>
        ELSE <<SubSeq(t, 1, i - 1)>> \o SplitWords(SubSeq(t, i, Len(t)))

\* mantext.splitlines(): "\r\n" is one break, no empty last line.
RECURSIVE SplitLines(_)
SplitLines(text) ==
    LET i == FindFirst(text, LineBreaks, 1)
        skip == IF i < Len(text) /\ text[i] = "\r" /\ text[i + 1] = "\n" THEN 2 ELSE 1
    IN  IF text = <<>> THEN <<>>
        ELSE IF i > Len(text) THEN <<text>>
        ELSE <<SubSeq(text, 1, i - 1)>> \o SplitLines(SubSeq(text, i + skip, Len(text)))

\* p.startswith('--')
StartsWithDashes(p) == Len(p) >= 2 /\ p[1] = "-" /\ p[2] = "-"

\* [x for x in s if pred]: the subsequence of the parts that start with "--"
LongParts(parts) == SelectSeq(parts, StartsWithDashes)

\* [p.strip() for p in content.split(',')]
StrippedParts(content) ==
    LET raw == SplitComma(content)
    IN  [i \in 1..Len(raw) |-> Strip(raw[i], Whitespace)]

\* re.match(r"\.(B|BI)\s+(.*)", line): the groups, or no match.
MatchDirective(line) ==
    IF Len(line) >= 3 /\ line[1] = "." /\ line[2] = "B" /\ line[3] \in Whitespace
    THEN [ok |-> TRUE, kind |-> "B",
          content |-> LStrip(SubSeq(line, 3, Len(line)), Whitespace)]
    ELSE IF Len(line) >= 4 /\ line[1] = "." /\ line[2] = "B" /\ line[3] = "I"
            /\ line[4] \in Whitespace
    THEN [ok |-> TRUE, kind |-> "BI",
          content |-> LStrip(SubSeq(line, 4, Len(line)), Whitespace)]
    ELSE [ok |-> FALSE, kind |-> "", content |-> <<>>]

\* Variant of MatchQuoted: re.search in place of re.match, the quoted segment
\* found wherever it starts.
MatchQuoted_Search(content) ==
    LET Starts == { i \in 1..Len(content) :
                      /\ content[i] = "\""
                      /\ FindFirst(content, {"\""}, i + 1) > i + 1
                      /\ FindFirst(content, {"\""}, i + 1) <= Len(content) }
        first == CHOOSE i \in Starts : \A j \in Starts : i <= j
    IN  IF Starts = {} THEN [ok |-> FALSE, group |-> <<>>]
        ELSE [ok |-> TRUE,
              group |-> SubSeq(content, first + 1,
                               FindFirst(content, {"\""}, first + 1) - 1)]

\* re.match(r'"([^\"]+)"', content): anchored at the start of content.
MatchQuoted(content) ==
    LET close == FindFirst(content, {"\""}, 2)
    IN  IF content # <<>> /\ content[1] = "\"" /\ close > 2 /\ close <= Len(content)
        THEN [ok |-> TRUE, group |-> SubSeq(content, 2, close - 1)]
        ELSE [ok |-> FALSE, group |-> <<>>]

-----------------------------------------------------------------------------
(* parse_options                                                           *)

Option(name, has_value) == [name |-> name, has_value |-> has_value]

\* Variant of FirstWord: the part kept whole, `.split()[0]` forgotten.
FirstWord_Whole(p) == p

\* p.split()[0], applied to a part that starts with "--" (so it has a word)
FirstWord(p) == SplitWords(p)[1]

\* The `kind == "B"` branch: the descriptors appended, or IndexError from
\* parts[0].split()[0] when the first part has no word.
FlagBranch(content) ==
    LET parts == StrippedParts(Strip(content, {"\""}))
        long_opts == [i \in 1..Len(LongParts(parts)) |-> FirstWord(LongParts(parts)[i])]
    IN  IF long_opts # <<>>
        THEN [raised |-> FALSE, opts |-> <<Option(long_opts[1], FALSE)>>]
        ELSE IF parts # <<>>
        THEN IF SplitWords(parts[1]) = <<>>
             THEN [raised |-> TRUE, opts |-> <<>>]
             ELSE [raised |-> FALSE, opts |-> <<Option(FirstWord(parts[1]), FALSE)>>]
        ELSE [raised |-> FALSE, opts |-> <<>>]

\* Variant of ValueTarget: the target reduced to its first word, as the flag
\* branch does.
ValueTarget_FirstWord(parts) ==
    LET target == IF LongParts(parts) # <<>> THEN LongParts(parts)[1] ELSE parts[1]
    IN  IF SplitWords(target) = <<>> THEN target ELSE SplitWords(target)[1]

\* long_opts[0] if long_opts else parts[0]
ValueTarget(parts) ==
    IF LongParts(parts) # <<>> THEN LongParts(parts)[1] ELSE parts[1]

\* The `kind == "BI"` branch.
ValueBranch(content) ==
    LET m == MatchQuoted(content)
        optpart == ReplaceEscapedHyphen(m.group)
    IN  IF ~m.ok THEN [raised |-> FALSE, opts |-> <<>>]
        ELSE [raised |-> FALSE,
              opts |-> <<Option(ValueTarget(StrippedParts(optpart)), TRUE)>>]

\* One iteration of the for loop over the lines.
LineResult(line) ==
    LET match == MatchDirective(line)
        content == Strip(ReplaceEscapedHyphen(match.content), Whitespace)
    IN  IF ~match.ok THEN [raised |-> FALSE, opts |-> <<>>]
        ELSE IF match.kind = "B" THEN FlagBranch(content)
        ELSE ValueBranch(content)

\* Variant of AppendOptions: a descriptor already listed is not appended again.
AppendOptions_Dedup(opts, new) ==
    IF new # <<>> /\ \E i \in 1..Len(opts) : opts[i] = new[1] THEN opts ELSE opts \o new

\* options.append(...)
AppendOptions(opts, new) == opts \o new

\* Entry of parse_options up to the for loop: the existence check and
\* read_text, which raises when the path exists and cannot be read as text.
ParseOpen ==
    /\ pc = "main"
    /\ CASE source = "absent" ->
              /\ pc' = "parsed"
              /\ UNCHANGED <<rest, exc>>
         [] source = "unreadable" ->
              /\ pc' = "crashed"
              /\ exc' = "OSError"
              /\ UNCHANGED rest
         [] OTHER ->
              /\ pc' = "loop"
              /\ rest' = SplitLines(mantext)
              /\ UNCHANGED exc
    /\ UNCHANGED <<source, mantext, options, stderr, widgets, form, cmd>>

\* One iteration of `for line in mantext.splitlines()`.
ParseLine ==
    /\ pc = "loop"
    /\ rest # <<>>
    /\ LET r == LineResult(Head(rest))
       IN  IF r.raised
           THEN /\ pc' = "crashed"
                /\ exc' = "IndexError"
                /\ UNCHANGED <<rest, options>>
           ELSE /\ options' = AppendOptions(options, r.opts)
                /\ rest' = Tail(rest)
                /\ UNCHANGED <<pc, exc>>
    /\ UNCHANGED <<source, mantext, stderr, widgets, form, cmd>>

\* `return options` after the last line.
ParseReturn ==
    /\ pc = "loop"
    /\ rest = <<>>
    /\ pc' = "parsed"
    /\ UNCHANGED <<source, mantext, rest, options, exc, stderr, widgets, form, cmd>>

InitCommon ==
    /\ rest = <<>>
    /\ options = <<>>
    /\ pc = "main"
    /\ exc = "none"
    /\ stderr = FALSE
    /\ widgets = <<>>
    /\ form = <<>>
    /\ cmd = <<>>

\* The extractor alone, on every one-line document within the bound: a
\* marker followed by a content of up to MaxContentLen characters.
InitLine ==
    /\ source = "readable"
    /\ \E m \in Markers, k \in 0..MaxContentLen :
         \E c \in [1..k -> ContentAlphabet] : mantext = m \o c
    /\ InitCommon

NextLine == ParseOpen \/ ParseLine \/ ParseReturn

SpecLine == InitLine /\ [][NextLine]_vars

-----------------------------------------------------------------------------
(* main                                                                    *)

\* Variant of NoOptions: the emptiness test of main left out.
NoOptions_Never(opts) == FALSE

\* `not opts`
NoOptions(opts) == opts = <<>>

\* main: parse_options returned nothing; print the message, sys.exit(1).
MainExit ==
    /\ pc = "parsed"
    /\ NoOptions(options)
    /\ stderr' = TRUE
    /\ pc' = "exit1"
    /\ UNCHANGED <<source, mantext, rest, options, exc, widgets, form, cmd>>

-----------------------------------------------------------------------------
(* build_gui                                                               *)

\* tk.StringVar() for an entry, tk.BooleanVar() for a checkbox
NewVar(opt) ==
    IF opt.has_value THEN [kind |-> "str", val |-> <<>>]
    ELSE [kind |-> "bool", val |-> FALSE]

\* widgets[name] = var on a dict: a new key goes last, an existing key keeps
\* its place and gets the new value. `var` is the row of the Tk variable.
DictSet(d, name, var) ==
    IF \E j \in 1..Len(d) : d[j].name = name
    THEN [j \in 1..Len(d) |->
            IF d[j].name = name THEN [name |-> name, var |-> var] ELSE d[j]]
    ELSE Append(d, [name |-> name, var |-> var])

\* The dict after the rows 1..n of `for opt in options`.
RECURSIVE WidgetsOf(_, _)
WidgetsOf(opts, n) ==
    IF n = 0 THEN <<>>
    ELSE DictSet(WidgetsOf(opts, n - 1), opts[n].name, n)

\* main calls build_gui(opts): one variable per row, then root.mainloop().
BuildGui ==
    /\ pc = "parsed"
    /\ ~NoOptions(options)
    /\ form' = [i \in 1..Len(options) |-> NewVar(options[i])]
    /\ widgets' = WidgetsOf(options, Len(options))
    /\ pc' = "mainloop"
    /\ UNCHANGED <<source, mantext, rest, options, exc, stderr, cmd>>

\* The user clicks the checkbox of a row.
ToggleCheck ==
    /\ pc = "mainloop"
    /\ \E i \in 1..Len(form) :
         /\ form[i].kind = "bool"
         /\ form' = [form EXCEPT ![i].val = ~form[i].val]
    /\ UNCHANGED <<source, mantext, rest, options, pc, exc, stderr, widgets, cmd>>

\* The user edits the entry of a row.
TypeEntry ==
    /\ pc = "mainloop"
    /\ \E i \in 1..Len(form), t \in EntryTexts :
         /\ form[i].kind = "str"
         /\ form[i].val # t
         /\ form' = [form EXCEPT ![i].val = t]
    /\ UNCHANGED <<source, mantext, rest, options, pc, exc, stderr, widgets, cmd>>

\* The window is closed: mainloop, build_gui and main return.
CloseWindow ==
    /\ pc = "mainloop"
    /\ pc' = "exit0"
    /\ UNCHANGED <<source, mantext, rest, options, exc, stderr, widgets, form, cmd>>

-----------------------------------------------------------------------------
(* run_scrcpy                                                              *)

Scrcpy == <<"s", "c", "r", "c", "p", "y">>

\* What one item of widgets.items() adds to cmd.
ItemArgs(name, var) ==
    IF var.kind = "bool"
    THEN IF var.val THEN <<name>> ELSE <<>>
    ELSE LET value == Strip(var.val, Whitespace)
         IN  IF value # <<>> THEN <<name, value>> ELSE <<>>

\* cmd after the first n items of `for name, var in widgets.items()`
RECURSIVE CmdOf(_, _, _)
CmdOf(w, f, n) ==
    IF n = 0 THEN <<Scrcpy>>
    ELSE CmdOf(w, f, n - 1) \o ItemArgs(w[n].name, f[w[n].var])

\* Run pressed, scrcpy found: subprocess.run blocks until the process ends.
RunScrcpy ==
    /\ pc = "mainloop"
    /\ cmd' = CmdOf(widgets, form, Len(widgets))
    /\ pc' = "running"
    /\ UNCHANGED <<source, mantext, rest, options, exc, stderr, widgets, form>>

\* scrcpy exits, with any status (check=False): the handler returns.
ProcessExit ==
    /\ pc = "running"
    /\ cmd' = <<>>
    /\ pc' = "mainloop"
    /\ UNCHANGED <<source, mantext, rest, options, exc, stderr, widgets, form>>

\* Run pressed, no scrcpy in PATH: subprocess.run raises FileNotFoundError,
\* the handler catches it and shows the modal error box.
RunNotFound ==
    /\ pc = "mainloop"
    /\ cmd' = CmdOf(widgets, form, Len(widgets))
    /\ pc' = "errorbox"
    /\ UNCHANGED <<source, mantext, rest, options, exc, stderr, widgets, form>>

\* Variant of DismissError: the except clause ends the program after the box.
DismissError_Exit ==
    /\ pc = "errorbox"
    /\ cmd' = <<>>
    /\ pc' = "exit1"
    /\ UNCHANGED <<source, mantext, rest, options, exc, stderr, widgets, form>>

\* The user dismisses the error box: showerror and the handler return.
DismissError ==
    /\ pc = "errorbox"
    /\ cmd' = <<>>
    /\ pc' = "mainloop"
    /\ UNCHANGED <<source, mantext, rest, options, exc, stderr, widgets, form>>

-----------------------------------------------------------------------------
(* The whole program, on documents of up to MaxLines lines.                *)

Init ==
    /\ \/ source = "readable" /\ mantext \in DocTexts
       \/ source \in {"absent", "unreadable"} /\ mantext = <<>>
    /\ InitCommon

Next ==
    \/ ParseOpen \/ ParseLine \/ ParseReturn
    \/ MainExit \/ BuildGui
    \/ ToggleCheck \/ TypeEntry \/ CloseWindow
    \/ RunScrcpy \/ ProcessExit \/ RunNotFound \/ DismissError

Spec == Init /\ [][Next]_vars

-----------------------------------------------------------------------------
(* Properties of the extractor on one-line documents (SpecLine).           *)

Quote == "\""

\* The directive of the document's line and its content as the branches see it.
TheDirective == MatchDirective(mantext)

TheContent == Strip(ReplaceEscapedHyphen(TheDirective.content), Whitespace)

HasSpace(s) == \E k \in 1..Len(s) : s[k] \in Whitespace

\* The first of the candidates that starts with "--", else the first one.
Preferred(cands) ==
    IF \E i \in 1..Len(cands) : StartsWithDashes(cands[i])
    THEN cands[CHOOSE i \in 1..Len(cands) :
                 /\ StartsWithDashes(cands[i])
                 /\ \A j \in 1..(i - 1) : ~StartsWithDashes(cands[j])]
    ELSE cands[1]

\* s holds a double-quoted, non-empty run of characters somewhere.
HasQuotedSubstring(s) ==
    \E i, j \in 1..Len(s) :
        /\ i + 1 < j
        /\ s[i] = Quote /\ s[j] = Quote
        /\ \A k \in (i + 1)..(j - 1) : s[k] # Quote

\* s begins with a double-quoted, non-empty run of characters.
HasLeadingQuoted(s) ==
    \E j \in 3..Len(s) :
        /\ s[1] = Quote /\ s[j] = Quote
        /\ \A k \in 2..(j - 1) : s[k] # Quote

\* The run of characters between the leading quote and the next one.
LeadingQuoted(s) ==
    SubSeq(s, 2, (CHOOSE j \in 3..Len(s) :
                     s[j] = Quote /\ \A k \in 2..(j - 1) : s[k] # Quote) - 1)

\* C1: parse_options never raises on a readable document, whatever its lines
\* hold: it always completes and returns a sequence.
C1_NeverRaises == source = "readable" => pc # "crashed"

\* C3 as claimed: every returned descriptor, of either kind, has a non-empty
\* name without whitespace.
C3_NameIsOneToken ==
    pc = "parsed" =>
        \A i \in 1..Len(options) :
            options[i].name # <<>> /\ ~HasSpace(options[i].name)

\* C3 amended: a flag descriptor's name is non-empty and a single token, the
\* first word of the preferred candidate; a value descriptor's name is the
\* whole trimmed preferred candidate (it may hold inner whitespace or be empty).
C3_NameByKind ==
    pc = "parsed" =>
        \A i \in 1..Len(options) :
            LET n == options[i].name
            IN  IF options[i].has_value
                THEN /\ n = Strip(n, Whitespace)
                     /\ n = Preferred(StrippedParts(
                              ReplaceEscapedHyphen(LeadingQuoted(TheContent))))
                ELSE /\ n # <<>>
                     /\ ~HasSpace(n)
                     /\ n = SplitWords(Preferred(StrippedParts(
                              Strip(TheContent, {Quote}))))[1]

\* Both kinds of name occur: a value name with a space in it.
C3_Witness ==
    /\ pc = "parsed"
    /\ Len(options) = 1
    /\ options[1].has_value
    /\ HasSpace(options[1].name)

\* C4: a flag line yields exactly one descriptor, has_value false, named by
\* the first word of the first "--" candidate, else of the first candidate;
\* it is never dropped.
C4_FlagLineYieldsOne ==
    (pc \in {"parsed", "crashed"} /\ TheDirective.ok /\ TheDirective.kind = "B") =>
        /\ pc = "parsed"
        /\ Len(options) = 1
        /\ ~options[1].has_value
        /\ options[1].name =
             SplitWords(Preferred(StrippedParts(Strip(TheContent, {Quote}))))[1]

\* C5 as claimed: a value line is skipped exactly when its content holds no
\* double-quoted substring, wherever it may occur.
C5_SkippedIffNoQuoted ==
    (pc = "parsed" /\ TheDirective.ok /\ TheDirective.kind = "BI") =>
        (options = <<>> <=> ~HasQuotedSubstring(TheContent))

\* C5 amended: a value line yields a descriptor exactly when its content
\* begins with a double-quoted non-empty segment, and the descriptor is taken
\* from that segment; a quoted substring further on is not looked for.
C5_SkippedIffNoLeadingQuoted ==
    (pc = "parsed" /\ TheDirective.ok /\ TheDirective.kind = "BI") =>
        /\ options = <<>> <=> ~HasLeadingQuoted(TheContent)
        /\ options # <<>> =>
             \E c \in {SplitComma(ReplaceEscapedHyphen(LeadingQuoted(TheContent)))} :
                \E i \in 1..Len(c) : options[1].name = Strip(c[i], Whitespace)

\* A value line skipped although a quoted substring occurs in its content.
C5_Witness ==
    /\ pc = "parsed"
    /\ TheDirective.ok /\ TheDirective.kind = "BI"
    /\ HasQuotedSubstring(TheContent)
    /\ options = <<>>

-----------------------------------------------------------------------------
(* Properties of the whole program (Spec).                                 *)

TheLines == SplitLines(mantext)

\* C2: with the manpage absent or unreadable parse_options returns the empty
\* sequence and raises nothing.
C2_UnavailableYieldsEmpty ==
    (source \in {"absent", "unreadable"} /\ pc # "main") =>
        (pc # "crashed" /\ exc = "none" /\ options = <<>>)

\* C7: the returned sequence is in line order: the descriptors are those of
\* an increasing choice of lines, one per line, every other line yields none,
\* a line without marker yields none, nothing is merged or reordered.
C7_LineOrder ==
    (pc = "parsed" /\ source = "readable") =>
        \E f \in [1..Len(options) -> 1..Len(TheLines)] :
            /\ \A a, b \in 1..Len(options) : a < b => f[a] < f[b]
            /\ \A a \in 1..Len(options) :
                 /\ MatchDirective(TheLines[f[a]]).ok
                 /\ LineResult(TheLines[f[a]]).opts = <<options[a]>>
            /\ \A i \in 1..Len(TheLines) :
                 (\A a \in 1..Len(options) : f[a] # i) =>
                     LineResult(TheLines[i]).opts = <<>>

\* The same option on two lines, with a line between them that yields none.
C7_Witness ==
    /\ pc = "parsed"
    /\ Len(TheLines) = 3
    /\ Len(options) = 2
    /\ options[1] = options[2]

\* The argument list of C8: per descriptor, in order, the name of a checked
\* flag, the pair of name and (trimmed) text of a filled-in value option.
RECURSIVE CmdPerDescriptor(_, _, _)
CmdPerDescriptor(opts, f, n) ==
    IF n = 0 THEN <<Scrcpy>>
    ELSE CmdPerDescriptor(opts, f, n - 1) \o
         (IF opts[n].has_value
          THEN IF Strip(f[n].val, Whitespace) # <<>>
               THEN <<opts[n].name, Strip(f[n].val, Whitespace)>> ELSE <<>>
          ELSE IF f[n].val THEN <<opts[n].name>> ELSE <<>>)

\* C8: the argument list passed to the launcher is built from every
\* descriptor, descriptors that share a name included; no row is ignored.
C8_CmdFromEveryDescriptor ==
    pc \in {"running", "errorbox"} =>
        cmd = CmdPerDescriptor(options, form, Len(options))

\* C9: an empty extraction ends main with the error message and status 1,
\* no form built, nothing launched; a form exists only with descriptors.
C9_EmptyMeansExit ==
    /\ (pc \in {"mainloop", "running", "errorbox", "exit0"}
          \/ form # <<>> \/ widgets # <<>> \/ cmd # <<>>) => options # <<>>
    /\ pc = "exit1" =>
          (stderr /\ options = <<>> /\ form = <<>> /\ widgets = <<>> /\ cmd = <<>>)
    /\ (options = <<>> /\ exc = "none" /\ pc \notin {"main", "loop", "parsed"}) =>
          pc = "exit1"

\* main gave up on a manpage that exists and has lines.
C9_Witness ==
    /\ pc = "exit1"
    /\ source = "readable"
    /\ Len(TheLines) >= 2

\* C10: a Run that fails for want of scrcpy shows the error box and changes
\* nothing of the form; the box leads back to the main loop only, the form
\* as it was; and in the main loop Run can always be pressed, again and again.
C10_NotFoundRecoverable ==
    /\ [][(pc' = "errorbox" /\ pc # "errorbox") =>
            (pc = "mainloop" /\ form' = form /\ widgets' = widgets
               /\ options' = options)]_vars
    /\ [][pc = "errorbox" =>
            (pc' = "mainloop" /\ form' = form /\ widgets' = widgets
               /\ options' = options)]_vars
    /\ [](pc = "mainloop" => (ENABLED RunNotFound /\ ENABLED RunScrcpy))

\* The error box is up over a form that the user has filled in.
C10_Witness ==
    /\ pc = "errorbox"
    /\ Len(cmd) > 1

====
